---- MODULE Spec2Model ----
(***************************************************************************)
(* Streamlit one-time voter app (Redis-backed, optimistic UI), src/app.py. *)
(*                                                                         *)
(* Every browser session executes the script top to bottom on each run.    *)
(* A run is cut into steps that contain at most one Redis command that     *)
(* matters, so that the commands of concurrently running sessions          *)
(* interleave exactly as the Redis server may serialise them.              *)
(***************************************************************************)
EXTENDS Integers, Sequences, FiniteSets, TLC

\* ------------------------------------------------------------------ bounds
Sessions == {"s1", "s2"}

\* Resets are offered while the epoch, plus the resets already under way, is
\* below MaxEpoch.
MaxEpoch == 1

\* The Redis commands that raise in one behaviour.
MaxFailures == 2

\* The sessions whose Redis commands may raise; the sessions are alike, so
\* one stands for either.
Faulty == {"s1"}

\* What a user may have typed in the name field when clicking "Set Name".
Inputs == {<<>>, <<" ">>, <<"a">>, <<" ", "b", " ">>}

\* ------------------------------------------------------------ Redis store
YES_KEY == "votes:yes"
NO_KEY == "votes:no"
RESET_KEY == "votes:reset_version"
NAMES_HASH_KEY == "votes:names"

\* r.kv : the string keys that exist, with their integer values
\* r.names : the hash votes:names, name -> choice in {"yes", "no", "none"}
EmptyMap == [x \in {} |-> 0]

Exists(store, key) == key \in DOMAIN store.kv

\* int(r.get(key) or 0)
GetInt(store, key) == IF Exists(store, key) THEN store.kv[key] ELSE 0

\* r.set(key, v)
Set(store, key, v) ==
    [store EXCEPT !.kv = [k \in DOMAIN store.kv \cup {key} |->
                              IF k = key THEN v ELSE store.kv[k]]]

\* variant: the increment is lost
IncrLost(store, key) == Set(store, key, GetInt(store, key))

\* r.incr(key): a missing key counts as 0
Incr(store, key) == Set(store, key, GetInt(store, key) + 1)

\* r.decr(key): Redis does not stop at zero
Decr(store, key) == Set(store, key, GetInt(store, key) - 1)

\* r.hget(NAMES_HASH_KEY, name) or "none"
HGet(store, name) ==
    IF name \in DOMAIN store.names THEN store.names[name] ELSE "none"

\* variant: a field that exists is not overwritten
HSetNX(store, name, choice) ==
    IF name \in DOMAIN store.names THEN store
    ELSE [store EXCEPT !.names = [n \in DOMAIN store.names \cup {name} |->
                                      IF n = name THEN choice ELSE store.names[n]]]

\* r.hset(NAMES_HASH_KEY, name, choice)
HSet(store, name, choice) ==
    [store EXCEPT !.names = [n \in DOMAIN store.names \cup {name} |->
                                 IF n = name THEN choice ELSE store.names[n]]]

\* variant: the hash is left in place
DeleteNamesKeep(store) == store

\* r.delete(NAMES_HASH_KEY)
DeleteNames(store) == [store EXCEPT !.names = EmptyMap]

\* variant: the "no" bucket is taken for the epoch key
KeyOfWrong(choice) == IF choice = "yes" THEN YES_KEY ELSE RESET_KEY

\* L134-L141: the counter key of a choice
KeyOf(choice) == IF choice = "yes" THEN YES_KEY ELSE NO_KEY

\* ----------------------------------------------------------- pure helpers
Max(a, b) == IF a >= b THEN a ELSE b
Abs(a) == IF a >= 0 THEN a ELSE -a

RECURSIVE LStrip(_)
LStrip(str) ==
    IF str # <<>> /\ Head(str) = " " THEN LStrip(Tail(str)) ELSE str

RECURSIVE RStrip(_)
RStrip(str) ==
    IF str # <<>> /\ str[Len(str)] = " "
    THEN RStrip(SubSeq(str, 1, Len(str) - 1))
    ELSE str

\* str.strip()
Strip(str) == RStrip(LStrip(str))

\* ------------------------------------------------------------------ state
VARIABLES
    r,              \* the Redis store
    session_state,  \* st.session_state of every session
    page,           \* what the session's last render offers to click
    pc,             \* where each session's script run stands
    frame,          \* the run's widget inputs and Python locals
    pending,        \* history: sessions that have not run the reset-version
                    \*   check since another session completed a reset_all
    recorded,       \* history: casts that recorded a first choice for a voter
    interleaved,    \* history: sessions whose current handler overlapped a
                    \*   store change by another session
    failures        \* history: the Redis commands that have raised

vars == <<r, session_state, page, pc, frame, pending, recorded, interleaved,
          failures>>

\* ------------------------------------------------------- session defaults
\* L39-L49: st.session_state.setdefault(...); "defined" holds the keys that
\* are filled from Redis on the first run
DefaultSession ==
    [defined |-> {}, voted |-> FALSE, voted_choice |-> "None",
     voter_name |-> <<>>, last_reset_version |-> 0,
     local_yes |-> 0, local_no |-> 0]

\* the widget inputs of a run and the locals of the handlers
\* "saved" holds prev_yes, prev_no, prev_voter, prev_voted, prev_voted_choice
\* and prev_last_reset (L207-L208, L232-L237) in the runs that may need them
DefaultFrame ==
    [click |-> "none", name_input |-> <<>>, has_voted |-> FALSE,
     redis_yes |-> 0, prev |-> "none", existing |-> {},
     saved |-> DefaultSession]

\* nothing is rendered before the first run has finished
DefaultPage == [shown |-> FALSE, name_form |-> FALSE, vote_enabled |-> FALSE]

Clicks == {"none", "set_name", "yes", "no", "reset_counts", "reset_all"}

ResetPcs == {"rc_set_yes", "rc_set_no", "rc_hgetall", "rc_hset", "rc_incr",
             "ra_get", "ra_set_yes", "ra_set_no", "ra_delete", "ra_incr"}

\* the steps of reset_counts_optimistic
RcPcs == {"rc_set_yes", "rc_set_no", "rc_hgetall", "rc_hset", "rc_incr"}

\* the steps of reset_all_optimistic inside its try
RaTryPcs == {"ra_set_yes", "ra_set_no", "ra_delete", "ra_incr"}

CastPcs == {"cvo_hget", "cvr_hget", "cvr_hset", "cvr_exec", "cvo_sync"}

\* the except branch of cast_vote_optimistic (L191-L202)
RollbackPcs == {"rb_yes", "rb_no", "rb_hget"}

\* the steps that lie inside a handler that writes to the store
HandlerPcs == {"name_hset"} \cup CastPcs \cup ResetPcs

\* resets begun and not yet finished
ResetsUnderWay == Cardinality({s \in Sessions : pc[s] \in ResetPcs})

\* A store no run has touched yet
FreshStore == [kv |-> EmptyMap, names |-> EmptyMap]

\* A store on which an earlier run has completed L23-L29
WarmStore == [kv |-> [k \in {YES_KEY, NO_KEY, RESET_KEY} |-> 0],
              names |-> EmptyMap]

InitSessions ==
    /\ session_state = [s \in Sessions |-> DefaultSession]
    /\ page = [s \in Sessions |-> DefaultPage]
    /\ pc = [s \in Sessions |-> "idle"]
    /\ frame = [s \in Sessions |-> DefaultFrame]
    /\ pending = {}
    /\ recorded = 0
    /\ interleaved = [s \in Sessions |-> FALSE]
    /\ failures = 0

Init == r \in {FreshStore, WarmStore} /\ InitSessions

InitWarm == r = WarmStore /\ InitSessions

\* ---------------------------------------------------------------- history
\* The cast step of s stores a yes/no choice for a voter whose record held no
\* choice.
RecordsFirstChoice(s) ==
    /\ pc[s] \in {"cvr_hset", "cvr_exec"}
    /\ HGet(r, session_state[s].voter_name) = "none"
    /\ HGet(r', session_state[s].voter_name) # "none"

\* no reset has begun: the epoch is 0 and no reset handler is under way
NoReset == GetInt(r, RESET_KEY) = 0 /\ \A s \in Sessions : pc[s] \notin ResetPcs

\* The history variables record what the step of s did; they are read by no
\* action.
Observed(s) ==
    /\ pending' = IF pc[s] = "ra_incr" THEN pending \cup (Sessions \ {s})
                  ELSE IF pc[s] = "check" THEN pending \ {s}
                  ELSE pending
    /\ recorded' = IF ~NoReset' THEN 0
                   ELSE IF RecordsFirstChoice(s) THEN recorded + 1
                   ELSE recorded
    /\ interleaved' = [t \in Sessions |->
          IF t = s
          THEN pc[s] \in HandlerPcs /\ pc'[s] \in HandlerPcs /\ interleaved[s]
          ELSE interleaved[t] \/ (pc[t] \in HandlerPcs /\ r' # r)]

\* the history of a step in which no Redis command raises
History(s) == Observed(s) /\ failures' = failures

\* the history of a step in which a Redis command raises
HistoryOfFailure(s) ==
    /\ s \in Faulty
    /\ failures < MaxFailures
    /\ Observed(s)
    /\ failures' = failures + 1

Goto(s, p) == pc' = [pc EXCEPT ![s] = p]

\* ------------------------------------------------- L23-L29 ensure keys exist
KeySteps ==
    << [set |-> "key_yes_set", key |-> YES_KEY],
       [set |-> "key_no_set", key |-> NO_KEY],
       [set |-> "key_reset_set", key |-> RESET_KEY] >>

\* After L23-L29 a run continues with the first-run defaults that read Redis
\* (L42, L47, L49), then with the name input (L53-L66) if "Set Name" was
\* clicked with a valid name, else with the reset-version check (L84).
\* variant: the input is not stripped before the test
ValidNameUnstripped(name_input) == name_input # <<>>

\* L60: if name_input and name_input.strip()
ValidName(name_input) == name_input # <<>> /\ Strip(name_input) # <<>>

AfterKeys(ss, fr) ==
    IF "last_reset_version" \notin ss.defined THEN "default_reset_version"
    ELSE IF "local_yes" \notin ss.defined THEN "default_local_yes"
    ELSE IF "local_no" \notin ss.defined THEN "default_local_no"
    ELSE IF /\ ss.voter_name = <<>>
            /\ fr.click = "set_name"
            /\ ValidName(fr.name_input)
    THEN "name_input"
    ELSE "check"

\* L24, L26, L28: if r.get(KEY) is None, for the keys from the i-th on. A key
\* that exists is never removed, so the reads that find their key are taken
\* together with the step before them; a read that finds its key missing
\* stops at the r.set that follows it.
RECURSIVE KeysFrom(_, _, _, _)
KeysFrom(store, i, ss, fr) ==
    IF i > Len(KeySteps) THEN AfterKeys(ss, fr)
    ELSE IF Exists(store, KeySteps[i].key) THEN KeysFrom(store, i + 1, ss, fr)
    ELSE KeySteps[i].set

\* st.rerun(): the run stops and the script starts again with no widget
\* triggered. To be used after r' and session_state' are set.
Rerun(s) ==
    /\ frame' = [frame EXCEPT ![s] = DefaultFrame]
    /\ Goto(s, KeysFrom(r', 1, session_state'[s], DefaultFrame))

\* --------------------------------------------------------- start of a run
\* A run starts by auto-refresh or page load (click "none") or by a click on
\* a widget that the session's last render offers.
ClickOffered(s, click) ==
    \/ click = "none"
    \/ /\ page[s].shown
       /\ \/ click = "set_name" /\ page[s].name_form
          \/ click \in {"yes", "no"} /\ page[s].vote_enabled
          \/ /\ click \in {"reset_counts", "reset_all"}
             /\ GetInt(r, RESET_KEY) + ResetsUnderWay < MaxEpoch

StartRun(s) ==
    /\ pc[s] = "idle"
    /\ \E click \in Clicks :
          /\ ClickOffered(s, click)
          /\ \E input \in IF click = "set_name" THEN Inputs ELSE {<<>>} :
                frame' = [frame EXCEPT ![s] =
                            [DefaultFrame EXCEPT !.click = click,
                                                 !.name_input = input]]
    /\ Goto(s, KeysFrom(r, 1, session_state[s], frame'[s]))
    /\ UNCHANGED <<r, session_state, page>>
    /\ History(s)

\*     r.set(KEY, 0)
EnsureKeySet(s) ==
    /\ \E i \in 1..Len(KeySteps) :
          /\ pc[s] = KeySteps[i].set
          /\ r' = Set(r, KeySteps[i].key, 0)
          /\ Goto(s, KeysFrom(r', i + 1, session_state[s], frame[s]))
    /\ UNCHANGED <<session_state, page, frame>>
    /\ History(s)

\* L42: setdefault("last_reset_version", int(r.get(RESET_KEY) or 0))
DefaultResetVersion(s) ==
    /\ pc[s] = "default_reset_version"
    /\ session_state' = [session_state EXCEPT ![s] =
          [@ EXCEPT !.last_reset_version = GetInt(r, RESET_KEY),
                    !.defined = @ \cup {"last_reset_version"}]]
    /\ Goto(s, AfterKeys(session_state'[s], frame[s]))
    /\ UNCHANGED <<r, page, frame>>
    /\ History(s)

\* L46-L47: local_yes = int(r.get(YES_KEY) or 0), once per session
DefaultLocalYes(s) ==
    /\ pc[s] = "default_local_yes"
    /\ session_state' = [session_state EXCEPT ![s] =
          [@ EXCEPT !.local_yes = GetInt(r, YES_KEY),
                    !.defined = @ \cup {"local_yes"}]]
    /\ Goto(s, AfterKeys(session_state'[s], frame[s]))
    /\ UNCHANGED <<r, page, frame>>
    /\ History(s)

\* L48-L49: local_no = int(r.get(NO_KEY) or 0), once per session
DefaultLocalNo(s) ==
    /\ pc[s] = "default_local_no"
    /\ session_state' = [session_state EXCEPT ![s] =
          [@ EXCEPT !.local_no = GetInt(r, NO_KEY),
                    !.defined = @ \cup {"local_no"}]]
    /\ Goto(s, AfterKeys(session_state'[s], frame[s]))
    /\ UNCHANGED <<r, page, frame>>
    /\ History(s)

\* ------------------------------------------------- L51-L81 the name input
\* L63-L66: the optimistic session update of "Set Name"; epoch is the value
\* read at L66
SetNameLocal(ss, cleaned, epoch) ==
    [ss EXCEPT !.voter_name = cleaned, !.voted = FALSE,
               !.voted_choice = "None", !.last_reset_version = epoch]

\* L59-L66, taken when "Set Name" was clicked with a valid name: the name is
\* applied locally and the epoch is read (L66) before the record is written
NameInput(s) ==
    /\ pc[s] = "name_input"
    /\ session_state' = [session_state EXCEPT ![s] =
          SetNameLocal(@, Strip(frame[s].name_input), GetInt(r, RESET_KEY))]
    /\ Goto(s, "name_hset")
    /\ UNCHANGED <<r, page, frame>>
    /\ History(s)

\* L68-L69, L76-L77: r.hset(NAMES_HASH_KEY, cleaned, "none"), then st.rerun()
NameHSet(s) ==
    /\ pc[s] = "name_hset"
    /\ r' = HSet(r, session_state[s].voter_name, "none")
    /\ UNCHANGED <<session_state, page>>
    /\ Rerun(s)
    /\ History(s)

\* ------------------------------------------- L83-L90 reset-version check
\* L85-L88
CheckUnlock(ss, current_reset_version) ==
    IF current_reset_version > ss.last_reset_version
    THEN [ss EXCEPT !.voted = FALSE, !.voted_choice = "None",
                    !.last_reset_version = current_reset_version]
    ELSE ss

\* L84-L90: current_reset_version = int(r.get(RESET_KEY) or 0); unlock;
\* has_voted = bool(voted). The run comes here past L53-L59 or L80-L81, which
\* render the name form only while the session has no name.
ResetVersionCheck(s) ==
    /\ pc[s] = "check"
    /\ page' = [page EXCEPT ![s].name_form = (session_state[s].voter_name = <<>>)]
    /\ session_state' = [session_state EXCEPT ![s] =
                            CheckUnlock(@, GetInt(r, RESET_KEY))]
    /\ frame' = [frame EXCEPT ![s].has_voted = session_state'[s].voted]
    /\ Goto(s, "sync_yes")
    /\ UNCHANGED r
    /\ History(s)

\* ---------------------------------- L266-L277 sync of the local counters
SyncThreshold == 1000

\* L269: redis_yes = int(r.get(YES_KEY) or 0)
SyncReadYes(s) ==
    /\ pc[s] = "sync_yes"
    /\ frame' = [frame EXCEPT ![s].redis_yes = GetInt(r, YES_KEY)]
    /\ Goto(s, "sync_no")
    /\ UNCHANGED <<r, session_state, page>>
    /\ History(s)

\* L272-L274
SyncLocal(ss, redis_yes, redis_no) ==
    IF \/ Abs(redis_yes - ss.local_yes) > SyncThreshold
       \/ Abs(redis_no - ss.local_no) > SyncThreshold
    THEN [ss EXCEPT !.local_yes = redis_yes, !.local_no = redis_no]
    ELSE ss

\* ------------------------------------------------ L124-L143 cast_vote_remote
\* variant: the old bucket is not decremented on a switch
PipelineExecNoDecr(store, name, prev, new_choice) ==
    HSet(Incr(store, KeyOf(new_choice)), name, new_choice)

\* L133-L143: the pipeline (MULTI/EXEC, executed by the server as one unit)
PipelineExec(store, name, prev, new_choice) ==
    LET dec == IF prev \in {"yes", "no"}
               THEN Decr(store, KeyOf(prev)) ELSE store
    IN  HSet(Incr(dec, KeyOf(new_choice)), name, new_choice)

\* L126-L129: prev = r.hget(NAMES_HASH_KEY, name) or "none"
CastRemoteHGet(s) ==
    /\ pc[s] = "cvr_hget"
    /\ frame' = [frame EXCEPT ![s].prev = HGet(r, session_state[s].voter_name)]
    /\ Goto(s, IF frame'[s].prev = frame[s].click THEN "cvr_hset" ELSE "cvr_exec")
    /\ UNCHANGED <<r, session_state, page>>
    /\ History(s)

\* L129-L132: the stored choice is the new choice already
CastRemoteHSet(s) ==
    /\ pc[s] = "cvr_hset"
    /\ r' = HSet(r, session_state[s].voter_name, frame[s].click)
    /\ Goto(s, "cvo_sync")
    /\ UNCHANGED <<session_state, page, frame>>
    /\ History(s)

\* L133-L143
CastRemoteExec(s) ==
    /\ pc[s] = "cvr_exec"
    /\ r' = PipelineExec(r, session_state[s].voter_name, frame[s].prev,
                         frame[s].click)
    /\ Goto(s, "cvo_sync")
    /\ UNCHANGED <<session_state, page, frame>>
    /\ History(s)

\* -------------------------------------------- L146-L202 cast_vote_optimistic
\* variant: the shadow counters are left as they are
CastLocalWithoutCount(ss, prev_local, new_choice) ==
    [ss EXCEPT !.voted = TRUE, !.voted_choice = new_choice]

\* L163-L184, from the previous choice found at L152-L157
CastLocal(ss, prev_local, new_choice) ==
    IF prev_local = new_choice
    THEN [ss EXCEPT !.voted = TRUE, !.voted_choice = new_choice]
    ELSE LET yes1 == IF prev_local = "yes"
                     THEN Max(0, ss.local_yes - 1) ELSE ss.local_yes
             no1 == IF prev_local = "no"
                    THEN Max(0, ss.local_no - 1) ELSE ss.local_no
         IN  [ss EXCEPT !.local_yes = IF new_choice = "yes" THEN yes1 + 1 ELSE yes1,
                        !.local_no = IF new_choice = "no" THEN no1 + 1 ELSE no1,
                        !.voted = TRUE, !.voted_choice = new_choice]

\* L153-L157: prev_local = r.hget(NAMES_HASH_KEY, name) or "none", then
\* L159-L184
CastHGet(s) ==
    /\ pc[s] = "cvo_hget"
    /\ LET prev_local == HGet(r, session_state[s].voter_name)
       IN  /\ session_state' = [session_state EXCEPT ![s] =
                                   CastLocal(@, prev_local, frame[s].click)]
           /\ UNCHANGED <<r, page>>
           /\ IF prev_local = frame[s].click
              THEN Rerun(s)
              ELSE Goto(s, "cvr_hget") /\ UNCHANGED frame
    /\ History(s)

\* L189-L190: last_reset_version = int(r.get(RESET_KEY) or 0); then the
\* st.rerun() of L294 / L301
CastSync(s) ==
    /\ pc[s] = "cvo_sync"
    /\ session_state' = [session_state EXCEPT
                            ![s].last_reset_version = GetInt(r, RESET_KEY)]
    /\ UNCHANGED <<r, page>>
    /\ Rerun(s)
    /\ History(s)

\* ------------------------------------------ L205-L228 reset_counts_optimistic
\* L210-L213
ResetCountsLocal(ss) ==
    [ss EXCEPT !.local_yes = 0, !.local_no = 0, !.voted = FALSE,
               !.voted_choice = "None"]

\* L216: r.set(YES_KEY, 0)
ResetCountsSetYes(s) ==
    /\ pc[s] = "rc_set_yes"
    /\ r' = Set(r, YES_KEY, 0)
    /\ Goto(s, "rc_set_no")
    /\ UNCHANGED <<session_state, page, frame>>
    /\ History(s)

\* L217: r.set(NO_KEY, 0)
ResetCountsSetNo(s) ==
    /\ pc[s] = "rc_set_no"
    /\ r' = Set(r, NO_KEY, 0)
    /\ Goto(s, "rc_hgetall")
    /\ UNCHANGED <<session_state, page, frame>>
    /\ History(s)

\* L218-L219: existing = r.hgetall(NAMES_HASH_KEY) or {}
ResetCountsHGetAll(s) ==
    /\ pc[s] = "rc_hgetall"
    /\ frame' = [frame EXCEPT ![s].existing = DOMAIN r.names]
    /\ Goto(s, IF DOMAIN r.names = {} THEN "rc_incr" ELSE "rc_hset")
    /\ UNCHANGED <<r, session_state, page>>
    /\ History(s)

\* variant: the record is removed instead of cleared
ClearChoiceDrop(store, n) ==
    [store EXCEPT !.names = [m \in DOMAIN store.names \ {n} |-> store.names[m]]]

\* L221: r.hset(NAMES_HASH_KEY, n, "none")
ClearChoice(store, n) == HSet(store, n, "none")

\* L220-L221: one turn of the loop; frame.existing holds the names still to
\* visit (the hash's field order is the server's)
ResetCountsHSet(s) ==
    /\ pc[s] = "rc_hset"
    /\ \E n \in frame[s].existing :
          /\ r' = ClearChoice(r, n)
          /\ frame' = [frame EXCEPT ![s].existing = @ \ {n}]
          /\ Goto(s, IF frame[s].existing = {n} THEN "rc_incr" ELSE "rc_hset")
    /\ UNCHANGED <<session_state, page>>
    /\ History(s)

\* L222-L223: new_reset = r.incr(RESET_KEY); last_reset_version = new_reset;
\* then the st.rerun() of L308
ResetCountsIncr(s) ==
    /\ pc[s] = "rc_incr"
    /\ r' = Incr(r, RESET_KEY)
    /\ session_state' = [session_state EXCEPT
                            ![s].last_reset_version = GetInt(r', RESET_KEY)]
    /\ UNCHANGED page
    /\ Rerun(s)
    /\ History(s)

\* --------------------------------------------- L231-L264 reset_all_optimistic
\* L240-L243
ResetAllLocal(ss) ==
    [ss EXCEPT !.local_yes = 0, !.local_no = 0, !.voted = FALSE,
               !.voted_choice = "None"]

\* L244-L248: last_reset_version = int(r.get(RESET_KEY) or 0);
\* voter_name = ""
ResetAllGet(s) ==
    /\ pc[s] = "ra_get"
    /\ session_state' = [session_state EXCEPT ![s] =
          [@ EXCEPT !.last_reset_version = GetInt(r, RESET_KEY),
                    !.voter_name = <<>>]]
    /\ Goto(s, "ra_set_yes")
    /\ UNCHANGED <<r, page, frame>>
    /\ History(s)

\* L251: r.set(YES_KEY, 0)
ResetAllSetYes(s) ==
    /\ pc[s] = "ra_set_yes"
    /\ r' = Set(r, YES_KEY, 0)
    /\ Goto(s, "ra_set_no")
    /\ UNCHANGED <<session_state, page, frame>>
    /\ History(s)

\* L252: r.set(NO_KEY, 0)
ResetAllSetNo(s) ==
    /\ pc[s] = "ra_set_no"
    /\ r' = Set(r, NO_KEY, 0)
    /\ Goto(s, "ra_delete")
    /\ UNCHANGED <<session_state, page, frame>>
    /\ History(s)

\* L253: r.delete(NAMES_HASH_KEY)
ResetAllDelete(s) ==
    /\ pc[s] = "ra_delete"
    /\ r' = DeleteNames(r)
    /\ Goto(s, "ra_incr")
    /\ UNCHANGED <<session_state, page, frame>>
    /\ History(s)

\* L254-L255: new_reset = r.incr(RESET_KEY); last_reset_version = new_reset;
\* then the st.rerun() of L313
ResetAllIncr(s) ==
    /\ pc[s] = "ra_incr"
    /\ r' = Incr(r, RESET_KEY)
    /\ session_state' = [session_state EXCEPT
                            ![s].last_reset_version = GetInt(r', RESET_KEY)]
    /\ UNCHANGED page
    /\ Rerun(s)
    /\ History(s)

\* --------------------------------------------------- L279-L313 the buttons
\* variant: the voted flag does not disable the buttons
VoteDisabledByNameOnly(has_voted, voter_name) == voter_name = <<>>

\* L291, L299: disabled=has_voted or not st.session_state.voter_name
VoteDisabled(has_voted, voter_name) == has_voted \/ voter_name = <<>>

\* L279-L313, entered with the session state ss that the sync leaves and
\* the locals fr of the run: the buttons are rendered and the clicked one, if
\* any, runs its handler up to its first Redis command.
ButtonsFrom(s, ss, fr) ==
    /\ page' = [page EXCEPT ![s] =
          [@ EXCEPT !.shown = TRUE,
                    !.vote_enabled = ~VoteDisabled(fr.has_voted, ss.voter_name)]]
    /\ LET click == fr.click
           handler == [fr EXCEPT !.redis_yes = 0]
       IN  CASE click \in {"yes", "no"} ->
                  \* L146-L152
                  IF ss.voter_name = <<>>
                  THEN session_state' = [session_state EXCEPT ![s] = ss]
                       /\ Rerun(s)
                  ELSE IF ss.voted_choice = "None"
                  THEN /\ session_state' = [session_state EXCEPT ![s] = ss]
                       /\ Goto(s, "cvo_hget")
                       /\ frame' = [frame EXCEPT ![s] = handler]
                  ELSE /\ session_state' = [session_state EXCEPT ![s] =
                              CastLocal(ss, ss.voted_choice, click)]
                       /\ IF ss.voted_choice = click
                          THEN Rerun(s)
                          ELSE /\ Goto(s, "cvr_hget")
                               /\ frame' = [frame EXCEPT ![s] = handler]
              [] click = "reset_counts" ->
                  /\ session_state' = [session_state EXCEPT ![s] =
                                          ResetCountsLocal(ss)]
                  /\ Goto(s, "rc_set_yes")
                  /\ frame' = [frame EXCEPT ![s] = handler]
              [] click = "reset_all" ->
                  /\ session_state' = [session_state EXCEPT ![s] =
                                          ResetAllLocal(ss)]
                  /\ Goto(s, "ra_get")
                  /\ frame' = [frame EXCEPT ![s] = handler]
              [] OTHER ->
                  \* L315-L348 only display; the run ends
                  /\ session_state' = [session_state EXCEPT ![s] = ss]
                  /\ Goto(s, "idle")
                  /\ frame' = [frame EXCEPT ![s] = DefaultFrame]

\* the locals prev_* are read only by the except branches (L224-L228,
\* L256-L264), so a run in which no Redis command fails does not keep them
Buttons(s, ss) == ButtonsFrom(s, ss, frame[s])

\* L270-L274: redis_no = int(r.get(NO_KEY) or 0) and the comparison; then the
\* script reaches the buttons with no further Redis command
SyncReadNo(s) ==
    /\ pc[s] = "sync_no"
    /\ UNCHANGED r
    /\ Buttons(s, SyncLocal(session_state[s], frame[s].redis_yes,
                            GetInt(r, NO_KEY)))
    /\ History(s)

\* ------------------------------------------------------------------- next
Step(s) ==
    \/ StartRun(s)
    \/ EnsureKeySet(s)
    \/ DefaultResetVersion(s)
    \/ DefaultLocalYes(s)
    \/ DefaultLocalNo(s)
    \/ NameInput(s)
    \/ NameHSet(s)
    \/ ResetVersionCheck(s)
    \/ SyncReadYes(s)
    \/ SyncReadNo(s)
    \/ CastHGet(s)
    \/ CastRemoteHGet(s)
    \/ CastRemoteHSet(s)
    \/ CastRemoteExec(s)
    \/ CastSync(s)
    \/ ResetCountsSetYes(s)
    \/ ResetCountsSetNo(s)
    \/ ResetCountsHGetAll(s)
    \/ ResetCountsHSet(s)
    \/ ResetCountsIncr(s)
    \/ ResetAllGet(s)
    \/ ResetAllSetYes(s)
    \/ ResetAllSetNo(s)
    \/ ResetAllDelete(s)
    \/ ResetAllIncr(s)

\* the script runs of the sessions interleave Redis command by Redis command
Next == \E s \in Sessions : Step(s)

Spec == Init /\ [][Next]_vars

\* One script run at a time: a session steps only while every other session
\* is between two runs. A run that is not interleaved finds at L128 the record
\* it found at L155, so it never takes L130-L132.
Alone(s) == \A t \in Sessions \ {s} : pc[t] = "idle"

StepSeq(s) ==
    \/ Alone(s) /\ StartRun(s)
    \/ Alone(s) /\ EnsureKeySet(s)
    \/ Alone(s) /\ DefaultResetVersion(s)
    \/ Alone(s) /\ DefaultLocalYes(s)
    \/ Alone(s) /\ DefaultLocalNo(s)
    \/ Alone(s) /\ NameInput(s)
    \/ Alone(s) /\ NameHSet(s)
    \/ Alone(s) /\ ResetVersionCheck(s)
    \/ Alone(s) /\ SyncReadYes(s)
    \/ Alone(s) /\ SyncReadNo(s)
    \/ Alone(s) /\ CastHGet(s)
    \/ Alone(s) /\ CastRemoteHGet(s)
    \/ Alone(s) /\ CastRemoteExec(s)
    \/ Alone(s) /\ CastSync(s)
    \/ Alone(s) /\ ResetCountsSetYes(s)
    \/ Alone(s) /\ ResetCountsSetNo(s)
    \/ Alone(s) /\ ResetCountsHGetAll(s)
    \/ Alone(s) /\ ResetCountsHSet(s)
    \/ Alone(s) /\ ResetCountsIncr(s)
    \/ Alone(s) /\ ResetAllGet(s)
    \/ Alone(s) /\ ResetAllSetYes(s)
    \/ Alone(s) /\ ResetAllSetNo(s)
    \/ Alone(s) /\ ResetAllDelete(s)
    \/ Alone(s) /\ ResetAllIncr(s)

NextSeq == \E s \in Sessions : StepSeq(s)

SpecSeq == Init /\ [][NextSeq]_vars

\* one browser session is open: only its runs take place
Lone == "s1"

NextLone == StepSeq(Lone)

SpecLone == Init /\ [][NextLone]_vars

\* st_autorefresh (L34) starts a run of every open session every 3 seconds
\* and every run ends, so every session steps again and again.
SpecLive ==
    /\ Init
    /\ [][NextSeq]_vars
    /\ \A s \in Sessions : SF_vars(StepSeq(s))

\* on a store whose keys exist no run finds a key missing, so no r.set of
\* L25, L27, L29 is ever taken
StepWarm(s) ==
    \/ StartRun(s)
    \/ DefaultResetVersion(s)
    \/ DefaultLocalYes(s)
    \/ DefaultLocalNo(s)
    \/ NameInput(s)
    \/ NameHSet(s)
    \/ ResetVersionCheck(s)
    \/ SyncReadYes(s)
    \/ SyncReadNo(s)
    \/ CastHGet(s)
    \/ CastRemoteHGet(s)
    \/ CastRemoteHSet(s)
    \/ CastRemoteExec(s)
    \/ CastSync(s)
    \/ ResetCountsSetYes(s)
    \/ ResetCountsSetNo(s)
    \/ ResetCountsHGetAll(s)
    \/ ResetCountsHSet(s)
    \/ ResetCountsIncr(s)
    \/ ResetAllGet(s)
    \/ ResetAllSetYes(s)
    \/ ResetAllSetNo(s)
    \/ ResetAllDelete(s)
    \/ ResetAllIncr(s)

NextWarm == \E s \in Sessions : StepWarm(s)

SpecWarm == InitWarm /\ [][NextWarm]_vars

\* =========================================== Redis commands that raise
\* Any Redis command may raise (the store is unreachable, or the reply is
\* lost). A command that raises has either not reached the server or has been
\* executed by it: Applied(s) is the store after the command at which the run
\* of s stands has been executed.

\* variant: a pipeline without MULTI/EXEC, which can stop after its incr
AppliedInParts(s) ==
    LET name == session_state[s].voter_name
    IN  CASE pc[s] \in {"key_yes_set", "key_no_set", "key_reset_set"} ->
                {Set(r, KeySteps[i].key, 0) :
                    i \in {j \in 1..Len(KeySteps) : KeySteps[j].set = pc[s]}}
          [] pc[s] = "name_hset" -> {HSet(r, name, "none")}
          [] pc[s] = "cvr_hset" -> {HSet(r, name, frame[s].click)}
          [] pc[s] = "cvr_exec" ->
                {PipelineExec(r, name, frame[s].prev, frame[s].click),
                 Incr(r, KeyOf(frame[s].click))}
          [] pc[s] \in {"rc_set_yes", "ra_set_yes"} -> {Set(r, YES_KEY, 0)}
          [] pc[s] \in {"rc_set_no", "ra_set_no"} -> {Set(r, NO_KEY, 0)}
          [] pc[s] = "rc_hset" -> {ClearChoice(r, n) : n \in frame[s].existing}
          [] pc[s] \in {"rc_incr", "ra_incr"} -> {Incr(r, RESET_KEY)}
          [] pc[s] = "ra_delete" -> {DeleteNames(r)}
          [] OTHER -> {}

\* L133: r.pipeline() is transactional by default
Applied(s) ==
    LET name == session_state[s].voter_name
    IN  CASE pc[s] \in {"key_yes_set", "key_no_set", "key_reset_set"} ->
                {Set(r, KeySteps[i].key, 0) :
                    i \in {j \in 1..Len(KeySteps) : KeySteps[j].set = pc[s]}}
          [] pc[s] = "name_hset" -> {HSet(r, name, "none")}
          [] pc[s] = "cvr_hset" -> {HSet(r, name, frame[s].click)}
          [] pc[s] = "cvr_exec" ->
                {PipelineExec(r, name, frame[s].prev, frame[s].click)}
          [] pc[s] \in {"rc_set_yes", "ra_set_yes"} -> {Set(r, YES_KEY, 0)}
          [] pc[s] \in {"rc_set_no", "ra_set_no"} -> {Set(r, NO_KEY, 0)}
          [] pc[s] = "rc_hset" -> {ClearChoice(r, n) : n \in frame[s].existing}
          [] pc[s] \in {"rc_incr", "ra_incr"} -> {Incr(r, RESET_KEY)}
          [] pc[s] = "ra_delete" -> {DeleteNames(r)}
          [] OTHER -> {}

\* the command at which the run of s stands raises
Raises(s) == r' \in {r} \cup Applied(s)

\* An exception that no try catches ends the run: Streamlit shows the
\* traceback in place of what the script had still to render.
Uncaught(s) ==
    /\ Goto(s, "uncaught")
    /\ frame' = [frame EXCEPT ![s] = DefaultFrame]

\* the run has ended with the traceback on the page; the next run starts as
\* after any other run
ShowError(s) ==
    /\ pc[s] = "uncaught"
    /\ Goto(s, "idle")
    /\ UNCHANGED <<r, session_state, page, frame>>
    /\ History(s)

\* L24-L29, L42, L47, L49: the module-level reads and writes are in no try.
\* L24, L26, L28 and the argument of L42 are evaluated at the start of every
\* run.
StartupFails(s) ==
    /\ pc[s] \in {"idle", "key_yes_set", "key_no_set", "key_reset_set",
                  "default_reset_version", "default_local_yes",
                  "default_local_no"}
    /\ Raises(s)
    /\ page' = [page EXCEPT ![s] = DefaultPage]
    /\ UNCHANGED session_state
    /\ Uncaught(s)
    /\ HistoryOfFailure(s)

\* L63-L66: r.get(RESET_KEY) at L66 is before the try of L68; L63-L65 have
\* been executed
NameInputFails(s) ==
    /\ pc[s] = "name_input"
    /\ session_state' = [session_state EXCEPT ![s] =
          SetNameLocal(@, Strip(frame[s].name_input), @.last_reset_version)]
    /\ page' = [page EXCEPT ![s] = DefaultPage]
    /\ UNCHANGED r
    /\ Uncaught(s)
    /\ HistoryOfFailure(s)

\* L72-L74
SetNameRollback(ss) ==
    [ss EXCEPT !.voter_name = <<>>, !.voted = FALSE, !.voted_choice = "None"]

\* L69-L75: r.hset raises; the name is taken back and the run goes on at L84
\* with no rerun
NameHSetFails(s) ==
    /\ pc[s] = "name_hset"
    /\ Raises(s)
    /\ session_state' = [session_state EXCEPT ![s] = SetNameRollback(@)]
    /\ Goto(s, "check")
    /\ UNCHANGED <<page, frame>>
    /\ HistoryOfFailure(s)

\* L84-L85: r.get(RESET_KEY) is in no try (L85 evaluates the default
\* argument, a second r.get, on every run)
ResetVersionCheckFails(s) ==
    /\ pc[s] = "check"
    /\ page' = [page EXCEPT ![s] = DefaultPage]
    /\ UNCHANGED <<r, session_state>>
    /\ Uncaught(s)
    /\ HistoryOfFailure(s)

\* L160-L161, L207-L208, L232-L237: the handlers of the vote and reset
\* buttons start from the session state they find, and the reset handlers
\* keep it for their except branches
ButtonsSaving(s, ss) ==
    ButtonsFrom(s, ss,
        IF frame[s].click \in {"yes", "no", "reset_counts", "reset_all"}
        THEN [frame[s] EXCEPT !.saved = ss]
        ELSE frame[s])

\* L270-L313 as SyncReadNo, in a run whose handlers may have to roll back
SyncReadNoSaving(s) ==
    /\ pc[s] = "sync_no"
    /\ UNCHANGED r
    /\ ButtonsSaving(s, SyncLocal(session_state[s], frame[s].redis_yes,
                                  GetInt(r, NO_KEY)))
    /\ History(s)

\* L268-L277: r.get raises at L269 or L270; except: pass, the local counters
\* stay
SyncFails(s) ==
    /\ pc[s] \in {"sync_yes", "sync_no"}
    /\ UNCHANGED r
    /\ ButtonsSaving(s, session_state[s])
    /\ HistoryOfFailure(s)

\* L348: r.get(RESET_KEY) of the caption is in no try; the run that reaches
\* it has rendered every button and run no handler
CaptionFails(s) ==
    /\ pc[s] = "sync_no"
    /\ frame[s].click \in {"none", "set_name"}
    /\ \E ss \in {session_state[s],
                  SyncLocal(session_state[s], frame[s].redis_yes,
                            GetInt(r, NO_KEY))} :
          /\ session_state' = [session_state EXCEPT ![s] = ss]
          /\ page' = [page EXCEPT ![s] =
                [@ EXCEPT !.shown = TRUE,
                          !.vote_enabled = ~VoteDisabled(frame[s].has_voted,
                                                         ss.voter_name)]]
    /\ UNCHANGED r
    /\ Uncaught(s)
    /\ HistoryOfFailure(s)

\* L153-L157: r.hget raises; prev_local = "none", then L159-L184
CastHGetFails(s) ==
    /\ pc[s] = "cvo_hget"
    /\ session_state' = [session_state EXCEPT ![s] =
                            CastLocal(@, "none", frame[s].click)]
    /\ Goto(s, "cvr_hget")
    /\ UNCHANGED <<r, page, frame>>
    /\ HistoryOfFailure(s)

\* L187-L191: a command of cast_vote_remote (L128, L131, L143) or the r.get
\* of L190 raises; the except branch starts
CastRemoteFails(s) ==
    /\ pc[s] \in {"cvr_hget", "cvr_hset", "cvr_exec", "cvo_sync"}
    /\ Raises(s)
    /\ Goto(s, "rb_yes")
    /\ UNCHANGED <<session_state, page, frame>>
    /\ HistoryOfFailure(s)

\* L96: local_yes = int(r.get(YES_KEY) or 0)
RefreshYes(s) ==
    /\ pc[s] = "rb_yes"
    /\ session_state' = [session_state EXCEPT
                            ![s].local_yes = GetInt(r, YES_KEY)]
    /\ Goto(s, "rb_no")
    /\ UNCHANGED <<r, page, frame>>
    /\ History(s)

\* L96, L98-L100: r.get raises; L97 is skipped
RefreshYesFails(s) ==
    /\ pc[s] = "rb_yes"
    /\ Goto(s, "rb_hget")
    /\ UNCHANGED <<r, session_state, page, frame>>
    /\ HistoryOfFailure(s)

\* L97: local_no = int(r.get(NO_KEY) or 0)
RefreshNo(s) ==
    /\ pc[s] = "rb_no"
    /\ session_state' = [session_state EXCEPT
                            ![s].local_no = GetInt(r, NO_KEY)]
    /\ Goto(s, "rb_hget")
    /\ UNCHANGED <<r, page, frame>>
    /\ History(s)

\* L97-L100: r.get raises
RefreshNoFails(s) ==
    /\ pc[s] = "rb_no"
    /\ Goto(s, "rb_hget")
    /\ UNCHANGED <<r, session_state, page, frame>>
    /\ HistoryOfFailure(s)

\* L195-L201, with the choice that L198 found ("none" if it raised)
CastRollback(ss, actual) ==
    [ss EXCEPT !.voted = FALSE,
               !.voted_choice = IF actual # "none" THEN actual ELSE "None"]

\* L195-L199, then the st.rerun() of L294 / L301
RollbackHGet(s) ==
    /\ pc[s] = "rb_hget"
    /\ session_state' = [session_state EXCEPT ![s] =
          CastRollback(@, HGet(r, session_state[s].voter_name))]
    /\ UNCHANGED <<r, page>>
    /\ Rerun(s)
    /\ History(s)

\* L195-L201: r.hget raises
RollbackHGetFails(s) ==
    /\ pc[s] = "rb_hget"
    /\ session_state' = [session_state EXCEPT ![s] = CastRollback(@, "none")]
    /\ UNCHANGED <<r, page>>
    /\ Rerun(s)
    /\ HistoryOfFailure(s)

\* L226-L227
ResetCountsRollback(ss, saved) ==
    [ss EXCEPT !.local_yes = saved.local_yes, !.local_no = saved.local_no]

\* L215-L228: a command of the try raises; then the st.rerun() of L308
ResetCountsFails(s) ==
    /\ pc[s] \in RcPcs
    /\ Raises(s)
    /\ session_state' = [session_state EXCEPT ![s] =
                            ResetCountsRollback(@, frame[s].saved)]
    /\ UNCHANGED page
    /\ Rerun(s)
    /\ HistoryOfFailure(s)

\* L244: r.get(RESET_KEY) is before the try of L250; L240-L243 have been
\* executed
ResetAllGetFails(s) ==
    /\ pc[s] = "ra_get"
    /\ UNCHANGED <<r, session_state, page>>
    /\ Uncaught(s)
    /\ HistoryOfFailure(s)

\* variant: the name is not restored (L262 left out)
ResetAllRollbackWithoutName(ss, saved) ==
    [ss EXCEPT !.local_yes = saved.local_yes, !.local_no = saved.local_no,
               !.voted = saved.voted, !.voted_choice = saved.voted_choice,
               !.last_reset_version = saved.last_reset_version]

\* L258-L263
ResetAllRollback(ss, saved) ==
    [ss EXCEPT !.local_yes = saved.local_yes, !.local_no = saved.local_no,
               !.voted = saved.voted, !.voted_choice = saved.voted_choice,
               !.voter_name = saved.voter_name,
               !.last_reset_version = saved.last_reset_version]

\* L250-L264: a command of the try raises; then the st.rerun() of L313
ResetAllFails(s) ==
    /\ pc[s] \in RaTryPcs
    /\ Raises(s)
    /\ session_state' = [session_state EXCEPT ![s] =
                            ResetAllRollback(@, frame[s].saved)]
    /\ UNCHANGED page
    /\ Rerun(s)
    /\ HistoryOfFailure(s)

\* A step of a run in which every Redis command may raise, the runs taken one
\* at a time.
StepFail(s) ==
    \/ Alone(s) /\ StartRun(s)
    \/ Alone(s) /\ EnsureKeySet(s)
    \/ Alone(s) /\ DefaultResetVersion(s)
    \/ Alone(s) /\ DefaultLocalYes(s)
    \/ Alone(s) /\ DefaultLocalNo(s)
    \/ Alone(s) /\ NameInput(s)
    \/ Alone(s) /\ NameHSet(s)
    \/ Alone(s) /\ ResetVersionCheck(s)
    \/ Alone(s) /\ SyncReadYes(s)
    \/ Alone(s) /\ SyncReadNoSaving(s)
    \/ Alone(s) /\ CastHGet(s)
    \/ Alone(s) /\ CastRemoteHGet(s)
    \/ Alone(s) /\ CastRemoteHSet(s)
    \/ Alone(s) /\ CastRemoteExec(s)
    \/ Alone(s) /\ CastSync(s)
    \/ Alone(s) /\ ResetCountsSetYes(s)
    \/ Alone(s) /\ ResetCountsSetNo(s)
    \/ Alone(s) /\ ResetCountsHGetAll(s)
    \/ Alone(s) /\ ResetCountsHSet(s)
    \/ Alone(s) /\ ResetCountsIncr(s)
    \/ Alone(s) /\ ResetAllGet(s)
    \/ Alone(s) /\ ResetAllSetYes(s)
    \/ Alone(s) /\ ResetAllSetNo(s)
    \/ Alone(s) /\ ResetAllDelete(s)
    \/ Alone(s) /\ ResetAllIncr(s)
    \/ Alone(s) /\ ShowError(s)
    \/ Alone(s) /\ StartupFails(s)
    \/ Alone(s) /\ NameInputFails(s)
    \/ Alone(s) /\ NameHSetFails(s)
    \/ Alone(s) /\ ResetVersionCheckFails(s)
    \/ Alone(s) /\ SyncFails(s)
    \/ Alone(s) /\ CaptionFails(s)
    \/ Alone(s) /\ CastHGetFails(s)
    \/ Alone(s) /\ CastRemoteFails(s)
    \/ Alone(s) /\ RefreshYes(s)
    \/ Alone(s) /\ RefreshYesFails(s)
    \/ Alone(s) /\ RefreshNo(s)
    \/ Alone(s) /\ RefreshNoFails(s)
    \/ Alone(s) /\ RollbackHGet(s)
    \/ Alone(s) /\ RollbackHGetFails(s)
    \/ Alone(s) /\ ResetCountsFails(s)
    \/ Alone(s) /\ ResetAllGetFails(s)
    \/ Alone(s) /\ ResetAllFails(s)

NextFail == \E s \in Sessions : StepFail(s)

SpecFail == Init /\ [][NextFail]_vars

\* =============================================================== claims
Yes == GetInt(r, YES_KEY)
No == GetInt(r, NO_KEY)
Epoch == GetInt(r, RESET_KEY)
AllIdle == \A s \in Sessions : pc[s] = "idle"
Opposite(choice) == IF choice = "yes" THEN "no" ELSE "yes"

\* the step is one of session s leaving the program point p
Leaves(s, p) == pc[s] = p /\ pc'[s] # p

\* C1: in a run in which the voted flag is true after the reset-version check
\* the session casts no vote, and a session that is voted between two runs is
\* offered no vote button.
C1_VotedSessionCastsNoVote ==
    \A s \in Sessions :
        /\ pc[s] \in CastPcs => ~frame[s].has_voted
        /\ pc[s] = "idle" /\ session_state[s].voted => ~page[s].vote_enabled

\* a session has voted, its vote is in the store, and it is between two runs
\* with its buttons rendered
C1_Witness ==
    \E s \in Sessions :
        /\ pc[s] = "idle" /\ page[s].shown /\ session_state[s].voted
        /\ HGet(r, session_state[s].voter_name) = session_state[s].voted_choice
        /\ ~page[s].vote_enabled

\* C2: the first reset-version check that a session runs after another
\* session completed a reset_all leaves it with voted = false and
\* voted_choice = none.
C2_ResetAllUnlocksEverySession ==
    [][\A t \in Sessions :
          Leaves(t, "check") /\ t \in pending
              => /\ ~session_state'[t].voted
                 /\ session_state'[t].voted_choice = "None"]_vars

\* C3: while no reset has begun, yes + no is the number of casts that
\* recorded a choice for a voter who had none (a switch adds nothing).
C3_TotalIsRecordedVotes == NoReset => Yes + No = recorded

\* two sessions share a name, one voted yes and the other then switched the
\* name's vote to no: one recorded vote, total 1
C3_Witness ==
    /\ NoReset /\ AllIdle /\ recorded = 1 /\ Yes + No = 1
    /\ \E s, t \in Sessions :
          /\ session_state[s].voter_name = session_state[t].voter_name
          /\ session_state[s].voted /\ session_state[s].voted_choice = "yes"
          /\ session_state[t].voted /\ session_state[t].voted_choice = "no"

\* C4: the store counters are never negative.
C4_CountersNonNegative == Yes >= 0 /\ No >= 0

\* the sessions' names are pairwise distinct
DistinctNames ==
    \A s, t \in Sessions :
        s # t /\ session_state[s].voter_name # <<>>
            => session_state[s].voter_name # session_state[t].voter_name

Voters(choice) ==
    {s \in Sessions : session_state[s].voted
                        /\ session_state[s].voted_choice = choice}

C6_SwitchMovesOneVote ==
    [][\A s \in Sessions :
          LET name == session_state[s].voter_name
              new == frame[s].click
          IN  /\ new \in {"yes", "no"}
              /\ name # <<>>
              /\ HGet(r, name) = Opposite(new)
              => /\ Leaves(s, "sync_no") => pc'[s] \in {"cvo_hget", "cvr_hget"}
                 /\ Leaves(s, "cvo_hget") => pc'[s] = "cvr_hget" /\ r' = r
                 /\ Leaves(s, "cvr_hget") => pc'[s] = "cvr_exec" /\ r' = r
                 /\ Leaves(s, "cvr_exec") =>
                       /\ GetInt(r', KeyOf(Opposite(new)))
                              = GetInt(r, KeyOf(Opposite(new))) - 1
                       /\ GetInt(r', KeyOf(new)) = GetInt(r, KeyOf(new)) + 1
                       /\ HGet(r', name) = new]_vars

\* a voter recorded as yes, counts (1, 0), was switched to no: counts (0, 1)
C6_Witness ==
    /\ AllIdle /\ NoReset /\ Yes = 0 /\ No = 1
    /\ \E s, t \in Sessions :
          /\ session_state[s].voter_name = session_state[t].voter_name
          /\ session_state[s].voted_choice = "yes"
          /\ session_state[t].voted_choice = "no"
          /\ HGet(r, session_state[t].voter_name) = "no"

\* C7: a reset_counts that no other session's run interleaves keeps every
\* voter name at each of its steps, and when it completes both counters are 0
\* and every record's choice is none.
C7_ResetCountsClearsChoices ==
    [][\A s \in Sessions :
          /\ pc[s] \in RcPcs => DOMAIN r'.names = DOMAIN r.names
          /\ Leaves(s, "rc_incr") =>
                /\ GetInt(r', YES_KEY) = 0 /\ GetInt(r', NO_KEY) = 0
                /\ \A n \in DOMAIN r'.names : r'.names[n] = "none"]_vars

\* a reset_counts has wiped the vote of a session that has not noticed yet:
\* two names are still recorded, none with a choice
C7_Witness ==
    /\ AllIdle /\ Epoch = 1 /\ Yes = 0 /\ No = 0
    /\ Cardinality(DOMAIN r.names) = 2
    /\ \A n \in DOMAIN r.names : r.names[n] = "none"
    /\ \E t \in Sessions :
          /\ session_state[t].voted
          /\ session_state[t].last_reset_version = 0
          /\ session_state[t].voter_name \in DOMAIN r.names

\* C8 as stated: whenever a reset_all completes, both counters are 0, no
\* voter record exists and the epoch has been incremented, whatever the other
\* sessions did meanwhile.
C8_ResetAllWipesUnderAnyInterleaving ==
    [][\A s \in Sessions :
          Leaves(s, "ra_incr") =>
              /\ GetInt(r', YES_KEY) = 0 /\ GetInt(r', NO_KEY) = 0
              /\ DOMAIN r'.names = {}
              /\ GetInt(r', RESET_KEY) = GetInt(r, RESET_KEY) + 1]_vars

\* C8 amended: a reset_all always increments the epoch by 1 when it
\* completes; both counters are then 0 and no voter record exists if no other
\* session changed the store while the reset_all was under way.
C8_ResetAllWipesWhenNotInterleaved ==
    [][\A s \in Sessions :
          Leaves(s, "ra_incr") =>
              /\ GetInt(r', RESET_KEY) = GetInt(r, RESET_KEY) + 1
              /\ ~interleaved[s] =>
                    /\ GetInt(r', YES_KEY) = 0 /\ GetInt(r', NO_KEY) = 0
                    /\ DOMAIN r'.names = {}]_vars

\* a reset_all has wiped the record and the vote of a session that has not
\* noticed yet
C8_Witness ==
    /\ Epoch = 1 /\ Yes = 0 /\ No = 0 /\ DOMAIN r.names = {}
    /\ \E s, t \in Sessions :
          /\ pc[s] = "check" /\ session_state[s].last_reset_version = 1
          /\ session_state[s].voter_name = <<>>
          /\ pc[t] = "idle" /\ session_state[t].voted
          /\ session_state[t].last_reset_version = 0

CountOf(choice) ==
    Cardinality({n \in DOMAIN r.names : r.names[n] = choice})

\* C10: between the runs, votes:yes is the number of records whose choice is
\* yes and votes:no the number of records whose choice is no.
C10_CountersMatchRecords ==
    AllIdle => Yes = CountOf("yes") /\ No = CountOf("no")

\* C11: when the remote replay of a vote has failed, cast_vote_optimistic
\* returns with the local counters at the values they had before the
\* optimistic update and with voted = false.
C11_VoteRollbackRestoresShadow ==
    [][\A s \in Sessions :
          Leaves(s, "rb_hget") =>
              /\ session_state'[s].local_yes = frame[s].saved.local_yes
              /\ session_state'[s].local_no = frame[s].saved.local_no
              /\ ~session_state'[s].voted]_vars

\* the input is empty or holds only blanks
Blank(input) == \A i \in 1..Len(input) : input[i] = " "

\* C12: in a run started by "Set Name" with an empty or whitespace-only input
\* the handler is not entered: the session writes no voter record, its
\* voter_name, voted and voted_choice stay as they are, and so does its
\* last_reset_version up to the reset-version check of L84, which every run
\* executes.
C12_BlankNameChangesNothing ==
    [][\A s \in Sessions :
          LET fr == IF pc[s] = "idle" THEN frame'[s] ELSE frame[s]
          IN  /\ pc'[s] # pc[s]
              /\ fr.click = "set_name"
              /\ Blank(fr.name_input)
              => /\ pc'[s] \notin {"name_input", "name_hset"}
                 /\ r'.names = r.names
                 /\ session_state'[s].voter_name = session_state[s].voter_name
                 /\ session_state'[s].voted = session_state[s].voted
                 /\ session_state'[s].voted_choice
                        = session_state[s].voted_choice
                 /\ pc[s] # "check" =>
                        session_state'[s].last_reset_version
                            = session_state[s].last_reset_version]_vars

\* "Set Name" was clicked with a blank typed in: the run stands at L84, the
\* session has no name and the store no record
C12_Witness ==
    \E s \in Sessions :
        /\ pc[s] = "check"
        /\ frame[s].click = "set_name" /\ frame[s].name_input = <<" ">>
        /\ session_state[s].voter_name = <<>>
        /\ DOMAIN r.names = {}

\* C13: no step of a cast of choice c for a voter whose stored choice is c
\* changes a store counter or a local counter of the session, and the cast
\* returns with the session marked as voted with choice c.
C13_SameChoiceChangesNoCounter ==
    [][\A s \in Sessions :
          LET name == session_state[s].voter_name
              c == frame[s].click
          IN  /\ pc'[s] # pc[s]
              /\ pc[s] \in {"sync_no", "cvo_hget", "cvr_hget", "cvr_hset"}
              /\ c \in {"yes", "no"}
              /\ name # <<>>
              /\ HGet(r, name) = c
              => /\ GetInt(r', YES_KEY) = GetInt(r, YES_KEY)
                 /\ GetInt(r', NO_KEY) = GetInt(r, NO_KEY)
                 /\ session_state'[s].local_yes = session_state[s].local_yes
                 /\ session_state'[s].local_no = session_state[s].local_no
                 /\ pc'[s] \notin CastPcs \cup RollbackPcs =>
                        /\ session_state'[s].voted
                        /\ session_state'[s].voted_choice = c]_vars

\* the step is none of a vote or reset handler
NoVoteOrReset == \A s \in Sessions : pc[s] \notin CastPcs \cup ResetPcs

\* every session that has been opened displays the counts of the store
Converged ==
    \A s \in Sessions :
        {"local_yes", "local_no"} \subseteq session_state[s].defined
            => /\ session_state[s].local_yes = Yes
               /\ session_state[s].local_no = No

\* C14: if from some point on no vote or reset is performed, then from some
\* point on every open session displays the counts of the store.
C14_DisplayedCountsConverge == <>[]NoVoteOrReset => <>[]Converged

\* C15: no run ends with an exception that nothing has caught, whichever
\* Redis command raises.
C15_NoRunEndsUncaught == \A s \in Sessions : pc[s] # "uncaught"

\* C16: when a Redis command of reset_all_optimistic raises, the action ends
\* with local_yes, local_no, voted, voted_choice, voter_name and
\* last_reset_version at the values they had before the action.
C16_ResetAllRollbackRestoresSession ==
    [][\A s \in Sessions :
          /\ pc[s] \in {"ra_get"} \cup RaTryPcs
          /\ pc'[s] # pc[s]
          /\ failures' # failures
          => LET now == session_state'[s]
                 before == frame[s].saved
             IN  /\ now.local_yes = before.local_yes
                 /\ now.local_no = before.local_no
                 /\ now.voted = before.voted
                 /\ now.voted_choice = before.voted_choice
                 /\ now.voter_name = before.voter_name
                 /\ now.last_reset_version = before.last_reset_version]_vars

\* C18: a session that is marked as voted has a name, between any two Redis
\* commands of any run, the except branches included.
C18_VotedSessionIsNamed ==
    \A s \in Sessions :
        session_state[s].voted => session_state[s].voter_name # <<>>

\* a reset_all of a voted session has zeroed votes:yes and then failed: the
\* except branch has restored the name and the voted flag
C18_Witness ==
    /\ AllIdle /\ failures > 0 /\ Epoch = 0 /\ Yes = 0
    /\ \E s \in Sessions :
          /\ session_state[s].voted /\ session_state[s].voted_choice = "yes"
          /\ HGet(r, session_state[s].voter_name) = "yes"

\* C17: a vote whose pipeline was executed although the command raised can be
\* counted again by the retry, once the voter's record has been overwritten
\* in between; the record is the only thing that stops a second increment:
\* every step outside the resets that raises a store counter turns the record
\* of the stepping session's name from another value into that choice.
C17_IncrementRecordsTheChoice ==
    [][\A s \in Sessions : \A c \in {"yes", "no"} :
         (/\ pc'[s] # pc[s] /\ pc[s] \notin ResetPcs
          /\ GetInt(r', KeyOf(c)) > GetInt(r, KeyOf(c))) =>
            /\ HGet(r, session_state[s].voter_name) # c
            /\ HGet(r', session_state[s].voter_name) = c]_vars

\* the pipeline of a vote of s1 was executed but raised, the except branch
\* unlocked s1 without learning the stored choice, the other session's Set
\* Name of the same name overwrote the record, and s1 voted again: two
\* recorded votes of s1 for the one voter, the other session has not voted
C17_Witness ==
    /\ AllIdle /\ Epoch = 0 /\ failures = 2 /\ recorded = 2
    /\ Yes = 2 /\ No = 0
    /\ DOMAIN r.names = {<<"a">>} /\ r.names[<<"a">>] = "yes"
    /\ session_state["s1"].voted /\ session_state["s1"].voter_name = <<"a">>
    /\ ~session_state["s2"].voted /\ session_state["s2"].voter_name = <<"a">>

\* C19: with one session open and no command raising, whenever a run of the
\* session has ended (the action that started it is complete) the shadow
\* counters equal the store counters: local_yes = votes:yes and
\* local_no = votes:no.
C19_LoneShadowEqualsStore ==
    pc[Lone] = "idle" =>
        /\ session_state[Lone].local_yes = Yes
        /\ session_state[Lone].local_no = No

\* the lone session has reset the counters and voted no afterwards
C19_Witness ==
    /\ pc[Lone] = "idle" /\ Epoch = 1
    /\ session_state[Lone].voted /\ session_state[Lone].voted_choice = "no"
    /\ No = 1 /\ session_state[Lone].local_no = 1

TypeOK ==
    /\ DOMAIN r.kv \subseteq {YES_KEY, NO_KEY, RESET_KEY}
    /\ \A n \in DOMAIN r.names : r.names[n] \in {"yes", "no", "none"}
    /\ \A s \in Sessions : session_state[s].voted_choice \in {"None", "yes", "no"}

====
